---------------------------- MODULE Spec2Model ----------------------------
(***************************************************************************)
(* Model of run_psScripterv01.py: the DLL loader loop, the module-level    *)
(* imports, main() with its two passes (auto, ordenado) and the top-level  *)
(* exception handler.  The DWSIM engine is an external collaborator: each  *)
(* engine call either returns or raises, chosen by the environment.  The   *)
(* Python file writes (log, error_dump.txt) are taken to succeed.  Several *)
(* runs of the program follow one another on the same file system.         *)
(***************************************************************************)
EXTENDS Integers, Sequences, FiniteSets, TLC

VARIABLES
    run,            \* ordinal of the current process run
    pc,             \* position of the run in the script
    mode,           \* pass of main() being executed: "auto" | "ordenado"
    dllIdx,         \* index of the for-loop over dlls
    loaded,         \* assemblies referenced so far
    attempts,       \* clr.AddReference calls of this run, in order
    stdout,         \* lines printed by this run
    flowsheet_path, \* the hardcoded flowsheet path (input of the model)
    pathValid,      \* whether the engine can load flowsheet_path
    fileObjs,       \* simulation objects held by the flowsheet file
    mgr_auto, fs_auto, mgr_ord, fs_ord,   \* locals of main()
    nextId,         \* identity of the next engine object created
    excecoes,       \* local of the running driver
    calls,          \* engine calls and file writes of this run, in order
    excecao,        \* exception travelling to the top-level handler
    files,          \* file system: path -> content
    exitStatus,     \* process exit status of the run (-1 while running)
    okPaths         \* output/log paths present at the end of each successful run

vars == <<run, pc, mode, dllIdx, loaded, attempts, stdout, flowsheet_path,
          pathValid, fileObjs, mgr_auto, fs_auto, mgr_ord, fs_ord, nextId,
          excecoes, calls, excecao, files, exitStatus, okPaths>>

-----------------------------------------------------------------------------
(* Bounds *)

MaxRuns == 2

\* Assemblies whose loading the environment may make fail.
FlakyDlls == {"DWSIM.Automation.dll", "System.Buffers.dll"}

\* Exception lists the incremental recalculation may return.
CalcResults == { <<>>,
                 <<[id |-> "ex1", net |-> TRUE], [id |-> "ex2", net |-> FALSE]>> }

-----------------------------------------------------------------------------
(* Program constants *)

dwsim_path == <<"C:", "\\", "Program Files\\DWSIM">>

dlls == << "CapeOpen.dll", "DWSIM.Automation.dll", "DWSIM.Interfaces.dll",
           "DWSIM.GlobalSettings.dll", "DWSIM.SharedClasses.dll",
           "DWSIM.Thermodynamics.dll", "DWSIM.UnitOperations.dll",
           "DWSIM.Inspector.dll", "System.Buffers.dll" >>

timeout_seconds == 300

ErrorDump == <<"error_dump", ".", "txt">>

\* Paths are sequences of path tokens: "." is the dot, "\\" and "/" separate;
\* any other token is a run of characters holding neither.
RealPath == << "C:", "\\", "Users\\Usuario\\Documents\\DWSIM-Paiva\\psScripter",
               "\\", "psScripterv01", ".", "dwxmz" >>

FlowsheetPaths == { RealPath,
                    << "C:", "\\", "runs", ".", "v1", "\\", "sheet" >> }

Modes == {"auto", "ordenado"}

-----------------------------------------------------------------------------
(* os.path *)

RECURSIVE rfind(_, _, _)
rfind(p, toks, i) ==
    IF i = 0 THEN 0
    ELSE IF p[i] \in toks THEN i ELSE rfind(p, toks, i - 1)

RECURSIVE skipDots(_, _, _)
skipDots(p, filenameIndex, dotIndex) ==
    IF filenameIndex >= dotIndex THEN FALSE
    ELSE IF p[filenameIndex] # "." THEN TRUE
    ELSE skipDots(p, filenameIndex + 1, dotIndex)

\* os.path.splitext: <<base, ext>>
splitext(p) ==
    LET sepIndex == rfind(p, {"\\", "/"}, Len(p))
        dotIndex == rfind(p, {"."}, Len(p))
    IN  IF dotIndex > sepIndex /\ skipDots(p, sepIndex + 1, dotIndex)
        THEN << SubSeq(p, 1, dotIndex - 1), SubSeq(p, dotIndex, Len(p)) >>
        ELSE << p, <<>> >>

join(dir, name) == dir \o <<"\\", name>>

-----------------------------------------------------------------------------
(* Values *)

NoMgr == [id |-> 0, InitializeScriptEnvironment |-> FALSE, ScriptPaths |-> <<>>]
NoFs == [id |-> 0, loadedBy |-> 0, objs |-> <<>>]
NoExcecoes == [isNone |-> TRUE, items |-> <<>>]

FieldStates == [Enabled : BOOLEAN, AutomationMode : BOOLEAN,
                ScriptingInstance : {"None", "ctx"}]

SimObj(name, type, f) ==
    [Name |-> name, ObjectType |-> type, Enabled |-> f.Enabled,
     AutomationMode |-> f.AutomationMode,
     ScriptingInstance |-> f.ScriptingInstance]

OtherType(t) == IF t = "PythonScript" THEN "Valve" ELSE "PythonScript"

\* Flowsheet files: two objects, one script block and one valve in either
\* order, holding any values of the three fields.
FlowsheetFiles ==
    { << SimObj("OBJ1", t, f), SimObj("OBJ2", OtherType(t), f) >> :
         t \in {"PythonScript", "Valve"}, f \in FieldStates }

Line(tag, arg) == [tag |-> tag, arg |-> arg]

Call(op, mgr, fs, arg, ok) ==
    [op |-> op, mgr |-> mgr, fs |-> fs, arg |-> arg, ok |-> ok]

\* open(path, "w") followed by writes: the file holds exactly the new content.
WriteFile(fsys, path, content) ==
    [q \in (DOMAIN fsys) \cup {path} |-> IF q = path THEN content ELSE fsys[q]]

-----------------------------------------------------------------------------
(* Library loader: one iteration of the loop over dlls *)

\* Variant: a total failure is raised again instead of being logged and skipped.
LoadOneAborts(dll, primaryOK, fallbackOK) ==
    LET first == [dll |-> dll, ref |-> join(dwsim_path, dll),
                  how |-> "primary", ok |-> primaryOK]
        second == [dll |-> dll, ref |-> <<dll>>,
                   how |-> "fallback", ok |-> fallbackOK]
    IN  IF primaryOK
        THEN [ loaded |-> TRUE, attempts |-> <<first>>,
               lines |-> << Line("dll_ok", dll) >>, raises |-> FALSE ]
        ELSE IF fallbackOK
        THEN [ loaded |-> TRUE, attempts |-> <<first, second>>,
               lines |-> << Line("dll_warn", dll), Line("dll_alt", dll) >>,
               raises |-> FALSE ]
        ELSE [ loaded |-> FALSE, attempts |-> <<first, second>>,
               lines |-> << Line("dll_warn", dll), Line("dll_crit", dll) >>,
               raises |-> TRUE ]

LoadOne(dll, primaryOK, fallbackOK) ==
    LET first == [dll |-> dll, ref |-> join(dwsim_path, dll),
                  how |-> "primary", ok |-> primaryOK]
        second == [dll |-> dll, ref |-> <<dll>>,
                   how |-> "fallback", ok |-> fallbackOK]
    IN  IF primaryOK
        THEN [ loaded |-> TRUE, attempts |-> <<first>>,
               lines |-> << Line("dll_ok", dll) >>, raises |-> FALSE ]
        ELSE IF fallbackOK
        THEN [ loaded |-> TRUE, attempts |-> <<first, second>>,
               lines |-> << Line("dll_warn", dll), Line("dll_alt", dll) >>,
               raises |-> FALSE ]
        ELSE [ loaded |-> FALSE, attempts |-> <<first, second>>,
               lines |-> << Line("dll_warn", dll), Line("dll_crit", dll) >>,
               raises |-> FALSE ]

\* What clr.AddReference may do for a dll: the environment decides.
LoadOutcomes(dll) == IF dll \in FlakyDlls THEN BOOLEAN ELSE {TRUE}

\* from DWSIM.Automation import Automation3 / from DWSIM.Interfaces.Enums import Enums
\* succeed when the assemblies holding these namespaces are referenced.
ImportOK(ld) == {"DWSIM.Automation.dll", "DWSIM.Interfaces.dll"} \subseteq ld

-----------------------------------------------------------------------------
(* Flowsheet initializer *)

\* Variant: the scripting instance of a script block is left as loaded.
enable_scripting_obj_KeepsInstance(obj) ==
    IF obj.ObjectType = "PythonScript"
    THEN [obj EXCEPT !.Enabled = TRUE, !.AutomationMode = TRUE]
    ELSE obj

enable_scripting_obj(obj) ==
    IF obj.ObjectType = "PythonScript"
    THEN [obj EXCEPT !.Enabled = TRUE, !.AutomationMode = TRUE,
                     !.ScriptingInstance = "None"]
    ELSE obj

enable_scripting_in_flowsheet(objs) ==
    [i \in DOMAIN objs |-> enable_scripting_obj(objs[i])]

enable_scripting_lines(objs) ==
    LET RECURSIVE go(_)
        go(i) == IF i > Len(objs) THEN <<>>
                 ELSE (IF objs[i].ObjectType = "PythonScript"
                       THEN << Line("habilitando", objs[i].Name) >> ELSE <<>>)
                      \o go(i + 1)
    IN go(1)

\* gerenciador = Automation3() followed by the two headless settings
ConfigurarGerenciador(m) ==
    [m EXCEPT !.InitializeScriptEnvironment = TRUE, !.ScriptPaths = <<>>]

\* Variant: a path that cannot be loaded yields an empty flowsheet.
LoadRaisesIgnoresPath(valid, engineOK) == ~engineOK

\* LoadFlowsheet raises on a path the engine cannot load
LoadRaises(valid, engineOK) == ~valid \/ ~engineOK

-----------------------------------------------------------------------------
(* main(): arguments handed to the drivers, and the order of the steps *)

\* Variant: the ordered driver is handed the manager of the auto pass.
DriverArgsShared(m) ==
    IF m = "auto"
    THEN [gerenciador |-> mgr_auto, flowsheet |-> fs_auto, sufixo |-> "auto"]
    ELSE [gerenciador |-> mgr_auto, flowsheet |-> fs_ord, sufixo |-> "ordenado"]

DriverArgs(m) ==
    IF m = "auto"
    THEN [gerenciador |-> mgr_auto, flowsheet |-> fs_auto, sufixo |-> "auto"]
    ELSE [gerenciador |-> mgr_ord, flowsheet |-> fs_ord, sufixo |-> "ordenado"]

\* Flags of the stabilising fs.RequestCalculation2 call
StabFlags == <<TRUE, TRUE>>

\* Variant: _salvar_saida writes the log before it saves the flowsheet.
SeguinteLogFirst(p, m) ==
    CASE p = "init" -> [pc |-> "stab", mode |-> m]
      [] p = "stab" -> [pc |-> "calc", mode |-> m]
      [] p = "calc" -> [pc |-> "log", mode |-> m]
      [] p = "log"  -> [pc |-> "save", mode |-> m]
      [] p = "save" -> IF m = "auto" THEN [pc |-> "init", mode |-> "ordenado"]
                       ELSE [pc |-> "return", mode |-> m]

\* Position reached when the step at position p of pass m returns normally.
Seguinte(p, m) ==
    CASE p = "init" -> [pc |-> "stab", mode |-> m]
      [] p = "stab" -> [pc |-> "calc", mode |-> m]
      [] p = "calc" -> [pc |-> "save", mode |-> m]
      [] p = "save" -> [pc |-> "log", mode |-> m]
      [] p = "log"  -> IF m = "auto" THEN [pc |-> "init", mode |-> "ordenado"]
                       ELSE [pc |-> "return", mode |-> m]

\* Variant: executar_auto saves only when the calculation reported nothing.
ProssegueSeSemExcecoes(exc) == exc.isNone \/ Len(exc.items) = 0

\* executar_auto calls _salvar_saida whatever CalculateFlowsheet3 returned
ProsseguePersistencia(exc) == TRUE

\* Variant: executar_ordenado lets the exception through.
CapturaOrdenadoPropaga(raised, e) ==
    IF raised THEN [excecoes |-> NoExcecoes, propaga |-> TRUE]
    ELSE [excecoes |-> NoExcecoes, propaga |-> FALSE]

\* try/except around RequestCalculation3 in executar_ordenado
CapturaOrdenado(raised, e) ==
    IF raised THEN [excecoes |-> [isNone |-> FALSE, items |-> <<e>>], propaga |-> FALSE]
    ELSE [excecoes |-> NoExcecoes, propaga |-> FALSE]

-----------------------------------------------------------------------------
(* _relatorio_excecoes *)

Mensagem(ex) == IF ex.net THEN <<"ToString", ex.id>> ELSE <<"str", ex.id>>

relatorio_excecoes(exc) ==
    IF ~exc.isNone /\ Len(exc.items) > 0
    THEN [i \in DOMAIN exc.items |-> Line("excecao", Mensagem(exc.items[i]))]
    ELSE << Line("sem_excecoes", <<>>) >>

-----------------------------------------------------------------------------
(* _salvar_saida *)

\* Variant: the suffix is appended after the extension.
arquivo_saida_AfterExt(base, sufixo, ext) == base \o ext \o <<"_", sufixo>>

arquivo_saida(base, sufixo, ext) == base \o <<"_", sufixo>> \o ext

\* Variant: the log path does not carry the suffix of the mode.
arquivo_log_NoSuffix(base, sufixo) == base \o <<"_log", ".", "txt">>

arquivo_log(base, sufixo) == base \o <<"_", sufixo, "_log", ".", "txt">>

OutPath(sufixo) ==
    LET s == splitext(flowsheet_path) IN arquivo_saida(s[1], sufixo, s[2])

LogPath(sufixo) ==
    LET s == splitext(flowsheet_path) IN arquivo_log(s[1], sufixo)

FlowsheetContent(fs) ==
    [kind |-> "flowsheet", run |-> run, fs |-> fs.id, compressed |-> FALSE]

LogContent(sufixo) ==
    [kind |-> "log", run |-> run, entrada |-> flowsheet_path,
     saida |-> OutPath(sufixo)]

DumpContent(e) == [kind |-> "dump", run |-> run, erro |-> e]

-----------------------------------------------------------------------------
(* State machine *)

\* The state of a process that has just been started.
FreshProcess(p, m, i, ld, at, out, ma, fa, mo, fo, n, ex, cl, e, st) ==
    /\ p = "dlls"
    /\ m = "auto"
    /\ i = 1
    /\ ld = {}
    /\ at = <<>>
    /\ out = <<>>
    /\ ma = NoMgr /\ fa = NoFs
    /\ mo = NoMgr /\ fo = NoFs
    /\ n = 1
    /\ ex = NoExcecoes
    /\ cl = <<>>
    /\ e = "none"
    /\ st = -1

Init ==
    /\ run = 1
    /\ flowsheet_path \in FlowsheetPaths
    /\ pathValid \in BOOLEAN
    /\ fileObjs \in (IF pathValid THEN FlowsheetFiles ELSE {<<>>})
    /\ files = <<>>
    /\ okPaths = <<>>
    /\ FreshProcess(pc, mode, dllIdx, loaded, attempts, stdout, mgr_auto, fs_auto,
                    mgr_ord, fs_ord, nextId, excecoes, calls, excecao, exitStatus)

Inputs == <<flowsheet_path, pathValid, fileObjs>>
Locals == <<mgr_auto, fs_auto, mgr_ord, fs_ord, nextId>>
Loader == <<dllIdx, loaded, attempts>>

\* An exception leaves main() and reaches the try/except of __main__.
Raise(e) ==
    /\ pc' = "except"
    /\ excecao' = e

\* An exception at module level, outside any try: the interpreter prints the
\* traceback and the process ends with status 1.
Uncaught(e) ==
    /\ pc' = "exited"
    /\ excecao' = e
    /\ exitStatus' = 1

\* for dll in dlls: try AddReference(full path) except: try AddReference(dll)
LoadDll ==
    /\ pc = "dlls"
    /\ dllIdx <= Len(dlls)
    /\ \E primaryOK \in LoadOutcomes(dlls[dllIdx]),
          fallbackOK \in LoadOutcomes(dlls[dllIdx]) :
          LET r == LoadOne(dlls[dllIdx], primaryOK, fallbackOK) IN
          /\ loaded' = IF r.loaded THEN loaded \cup {dlls[dllIdx]} ELSE loaded
          /\ attempts' = attempts \o r.attempts
          /\ stdout' = stdout \o r.lines
          /\ IF r.raises
             THEN /\ Uncaught("AddReference")
                  /\ dllIdx' = dllIdx
             ELSE /\ dllIdx' = dllIdx + 1
                  /\ pc' = IF dllIdx = Len(dlls) THEN "import" ELSE "dlls"
                  /\ UNCHANGED <<excecao, exitStatus>>
    /\ UNCHANGED <<run, mode, Inputs, Locals, excecoes, calls, files, okPaths>>

\* The two module-level imports, then "if __name__ == '__main__': try: main()"
ImportDWSIM ==
    /\ pc = "import"
    /\ IF ImportOK(loaded)
       THEN /\ pc' = "init"
            /\ UNCHANGED <<excecao, exitStatus>>
       ELSE Uncaught("import")
    /\ UNCHANGED <<run, mode, Loader, stdout, Inputs, Locals, excecoes, calls,
                   files, okPaths>>

\* mgr, fs = inicializar_flowsheet(flowsheet_path)
InicializarFlowsheet ==
    /\ pc = "init"
    /\ \E ise \in BOOLEAN, sp \in {<<>>, <<"scripts">>}, engineOK \in BOOLEAN :
          LET gerenciador == ConfigurarGerenciador(
                  [id |-> nextId, InitializeScriptEnvironment |-> ise,
                   ScriptPaths |-> sp])
              raised == LoadRaises(pathValid, engineOK)
              fs == [id |-> nextId + 1, loadedBy |-> gerenciador.id,
                     objs |-> enable_scripting_in_flowsheet(fileObjs)]
              nxt == Seguinte("init", mode)
          IN
          /\ calls' = calls \o
                << Call("Automation3", nextId, 0, <<>>, TRUE),
                   Call("LoadFlowsheet", gerenciador.id,
                        IF raised THEN 0 ELSE fs.id,
                        <<flowsheet_path, gerenciador>>, ~raised) >>
          /\ IF raised
             THEN /\ Raise("LoadFlowsheet")
                  /\ stdout' = stdout \o << Line("carregando", flowsheet_path) >>
                  /\ nextId' = nextId + 1
                  /\ UNCHANGED <<mode, mgr_auto, fs_auto, mgr_ord, fs_ord>>
             ELSE /\ pc' = nxt.pc /\ mode' = nxt.mode
                  /\ stdout' = stdout \o << Line("carregando", flowsheet_path) >>
                                      \o enable_scripting_lines(fileObjs)
                  /\ nextId' = nextId + 2
                  /\ IF mode = "auto"
                     THEN /\ mgr_auto' = gerenciador /\ fs_auto' = fs
                          /\ UNCHANGED <<mgr_ord, fs_ord>>
                     ELSE /\ mgr_ord' = gerenciador /\ fs_ord' = fs
                          /\ UNCHANGED <<mgr_auto, fs_auto>>
                  /\ UNCHANGED excecao
    /\ UNCHANGED <<run, Loader, Inputs, excecoes, files, exitStatus, okPaths>>

\* fs.RequestCalculation2(True, True)
Estabilizar ==
    /\ pc = "stab"
    /\ \E ok \in BOOLEAN :
          LET a == DriverArgs(mode)
              nxt == Seguinte("stab", mode)
          IN
          /\ calls' = calls \o
                << Call("RequestCalculation2", 0, a.flowsheet.id, StabFlags, ok) >>
          /\ stdout' = stdout \o << Line("estabilizacao", <<>>) >>
          /\ IF ok THEN /\ pc' = nxt.pc /\ mode' = nxt.mode
                        /\ UNCHANGED excecao
                   ELSE /\ Raise("RequestCalculation2")
                        /\ UNCHANGED mode
    /\ UNCHANGED <<run, Loader, Inputs, Locals, excecoes, files, exitStatus,
                   okPaths>>

\* The position after the report of a driver: _salvar_saida, or past it.
AposRelatorio(exc) ==
    IF ProsseguePersistencia(exc) THEN Seguinte("calc", mode)
    ELSE Seguinte("log", mode)

\* executar_auto up to the call of _salvar_saida
ExecutarAutoCalc ==
    /\ pc = "calc" /\ mode = "auto"
    /\ LET a == DriverArgs(mode) IN
       \/ \E res \in CalcResults :
             LET exc == [isNone |-> FALSE, items |-> res]
                 nxt == AposRelatorio(exc)
             IN
             /\ calls' = calls \o
                   << Call("CalculateFlowsheet3", a.gerenciador.id, a.flowsheet.id,
                           <<timeout_seconds>>, TRUE) >>
             /\ excecoes' = exc
             /\ stdout' = stdout \o << Line("inicio_auto", <<>>) >>
                                 \o relatorio_excecoes(exc)
                                 \o << Line("duracao_auto", <<>>) >>
             /\ pc' = nxt.pc /\ mode' = nxt.mode
             /\ UNCHANGED excecao
       \/ /\ calls' = calls \o
                << Call("CalculateFlowsheet3", a.gerenciador.id, a.flowsheet.id,
                        <<timeout_seconds>>, FALSE) >>
          /\ stdout' = stdout \o << Line("inicio_auto", <<>>) >>
          /\ Raise("CalculateFlowsheet3")
          /\ UNCHANGED <<mode, excecoes>>
    /\ UNCHANGED <<run, Loader, Inputs, Locals, files, exitStatus, okPaths>>

\* executar_ordenado up to the call of _salvar_saida
ExecutarOrdenadoCalc ==
    /\ pc = "calc" /\ mode = "ordenado"
    /\ \E raised \in BOOLEAN, net \in BOOLEAN :
          LET a == DriverArgs(mode)
              e == [id |-> "RequestCalculation3", net |-> net]
              c == CapturaOrdenado(raised, e)
              nxt == Seguinte("calc", mode)
          IN
          /\ (~raised => net)
          /\ calls' = calls \o
                << Call("RequestCalculation3", 0, a.flowsheet.id,
                        <<"None", TRUE>>, ~raised) >>
          /\ IF raised /\ c.propaga
             THEN /\ Raise("RequestCalculation3")
                  /\ stdout' = stdout \o << Line("inicio_ordenado", <<>>) >>
                  /\ UNCHANGED <<mode, excecoes>>
             ELSE /\ excecoes' = c.excecoes
                  /\ stdout' = stdout \o << Line("inicio_ordenado", <<>>) >>
                                      \o relatorio_excecoes(c.excecoes)
                                      \o << Line("duracao_ordenado", <<>>) >>
                  /\ pc' = nxt.pc /\ mode' = nxt.mode
                  /\ UNCHANGED excecao
    /\ UNCHANGED <<run, Loader, Inputs, Locals, files, exitStatus, okPaths>>

\* _salvar_saida: gerenciador.SaveFlowsheet(flowsheet, arquivo_saida, compressed=False)
SalvarFlowsheet ==
    /\ pc = "save"
    /\ \E ok \in BOOLEAN :
          LET a == DriverArgs(mode)
              saida == OutPath(a.sufixo)
              nxt == Seguinte("save", mode)
          IN
          /\ calls' = calls \o
                << Call("SaveFlowsheet", a.gerenciador.id, a.flowsheet.id,
                        <<saida, FALSE>>, ok) >>
          /\ stdout' = stdout \o << Line("salvando", saida) >>
          /\ IF ok
             THEN /\ files' = WriteFile(files, saida, FlowsheetContent(a.flowsheet))
                  /\ pc' = nxt.pc /\ mode' = nxt.mode
                  /\ UNCHANGED excecao
             ELSE /\ Raise("SaveFlowsheet")
                  /\ UNCHANGED <<mode, files>>
    /\ UNCHANGED <<run, Loader, Inputs, Locals, excecoes, exitStatus, okPaths>>

\* _salvar_saida: with open(arquivo_log, 'w') ... and the two closing prints
EscreverLog ==
    /\ pc = "log"
    /\ LET a == DriverArgs(mode)
           nxt == Seguinte("log", mode)
       IN
       /\ calls' = calls \o
             << Call("open_w", 0, 0, <<LogPath(a.sufixo)>>, TRUE) >>
       /\ files' = WriteFile(files, LogPath(a.sufixo), LogContent(a.sufixo))
       /\ stdout' = stdout \o << Line("gerado", OutPath(a.sufixo)),
                                 Line("log_gerado", LogPath(a.sufixo)) >>
       /\ pc' = nxt.pc /\ mode' = nxt.mode
    /\ UNCHANGED <<run, Loader, Inputs, Locals, excecoes, excecao, exitStatus,
                   okPaths>>

\* main() returns: the script ends and the process exits with status 0
MainReturn ==
    /\ pc = "return"
    /\ pc' = "exited"
    /\ exitStatus' = 0
    /\ okPaths' = Append(okPaths, DOMAIN files \ {ErrorDump})
    /\ UNCHANGED <<run, mode, Loader, stdout, Inputs, Locals, excecoes, calls,
                   excecao, files>>

\* except Exception as e: print, write error_dump.txt, sys.exit(1)
HandlerWrites(fsys, e) == WriteFile(fsys, ErrorDump, DumpContent(e))

TopLevelExcept ==
    /\ pc = "except"
    /\ stdout' = stdout \o << Line("erro_inesperado", <<>>) >>
    /\ calls' = calls \o << Call("open_w", 0, 0, <<ErrorDump>>, TRUE) >>
    /\ files' = HandlerWrites(files, excecao)
    /\ exitStatus' = 1
    /\ pc' = "exited"
    /\ UNCHANGED <<run, mode, Loader, Inputs, Locals, excecoes, excecao, okPaths>>

\* The program is started again on the same machine.  The flowsheet file is
\* as it was, or has been removed in the meantime.
NewRun ==
    /\ pc = "exited"
    /\ run < MaxRuns
    /\ run' = run + 1
    /\ pathValid' \in {pathValid, FALSE}
    /\ fileObjs' = IF pathValid' THEN fileObjs ELSE <<>>
    /\ FreshProcess(pc', mode', dllIdx', loaded', attempts', stdout', mgr_auto',
                    fs_auto', mgr_ord', fs_ord', nextId', excecoes', calls',
                    excecao', exitStatus')
    /\ UNCHANGED <<flowsheet_path, files, okPaths>>

Next ==
    \/ LoadDll
    \/ ImportDWSIM
    \/ InicializarFlowsheet
    \/ Estabilizar
    \/ ExecutarAutoCalc
    \/ ExecutarOrdenadoCalc
    \/ SalvarFlowsheet
    \/ EscreverLog
    \/ MainReturn
    \/ TopLevelExcept
    \/ NewRun

Spec == Init /\ [][Next]_vars

-----------------------------------------------------------------------------
(* Properties *)

WrittenThisRun(p) == p \in DOMAIN files /\ files[p].run = run

CallIdx(op) == {i \in DOMAIN calls : calls[i].op = op}

Exited == pc = "exited"

\* The calls of the run without the handler's write of error_dump.txt.
MainCalls ==
    SelectSeq(calls, LAMBDA c : ~(c.op = "open_w" /\ c.arg = <<ErrorDump>>))

SaveReturned(sufixo) ==
    \E i \in CallIdx("SaveFlowsheet") :
        calls[i].ok /\ calls[i].arg[1] = OutPath(sufixo)

\* After call i (the calculation of a driver) the save routine runs for the
\* mode: SaveFlowsheet is the next call, with the driver's manager and
\* flowsheet, and once it has returned the log of the mode is written.
SaveRoutineFollows(i, sufixo) ==
    IF i = Len(calls)
    THEN pc = "save" /\ mode = sufixo
    ELSE /\ calls[i + 1].op = "SaveFlowsheet"
         /\ calls[i + 1].fs = calls[i].fs
         /\ calls[i + 1].arg = <<OutPath(sufixo), FALSE>>
         /\ calls[i + 1].ok =>
               /\ WrittenThisRun(OutPath(sufixo))
               /\ IF i + 1 = Len(calls)
                  THEN pc = "log" /\ mode = sufixo
                  ELSE /\ calls[i + 2].op = "open_w"
                       /\ calls[i + 2].arg = <<LogPath(sufixo)>>
                       /\ WrittenThisRun(LogPath(sufixo))

\* C1: every top-level failure of a run, whatever step raises it (the
\* flowsheet not found, the import of the simulator library after the loader,
\* an engine call that aborts), ends with the traceback written to
\* error_dump.txt and exit status 1.
C1_EveryFailureDumped ==
    (Exited /\ excecao # "none") =>
        /\ exitStatus = 1
        /\ WrittenThisRun(ErrorDump)
        /\ files[ErrorDump].erro = excecao

\* C2: when the flowsheet path is invalid and LoadFlowsheet raises, the run
\* ends with a non-zero exit status, error_dump.txt is written, and neither
\* <base>_auto<ext> nor <base>_ordenado<ext> is written during that run.
C2_InvalidPathFails ==
    ~pathValid =>
        /\ ~WrittenThisRun(OutPath("auto"))
        /\ ~WrittenThisRun(OutPath("ordenado"))
        /\ \A i \in CallIdx("LoadFlowsheet") : ~calls[i].ok
        /\ (Exited /\ CallIdx("LoadFlowsheet") # {}) =>
              /\ exitStatus # 0
              /\ WrittenThisRun(ErrorDump)
              /\ files[ErrorDump].erro = "LoadFlowsheet"

\* A second run finds the flowsheet removed: the outputs of the first run are
\* on disk, and this run wrote error_dump.txt only.
C2_Witness ==
    /\ Exited /\ ~pathValid /\ run = 2
    /\ CallIdx("LoadFlowsheet") # {}
    /\ OutPath("auto") \in DOMAIN files
    /\ WrittenThisRun(ErrorDump)

\* C3 as stated: every invocation of the auto driver is followed by the save
\* of the flowsheet and the write of the log.
C3_EveryInvocationSaves ==
    Exited =>
        \A i \in CallIdx("CalculateFlowsheet3") :
            \E j \in CallIdx("SaveFlowsheet") :
                /\ j > i
                /\ calls[j].arg[1] = OutPath("auto")
                /\ calls[j].ok => WrittenThisRun(LogPath("auto"))

\* C3 amended: once CalculateFlowsheet3 has returned, whatever exception list
\* it returned, the auto driver calls SaveFlowsheet next and writes the log
\* once the save has returned; there is no gate on the exception list.
C3_ReturnedCalcSaves ==
    \A i \in CallIdx("CalculateFlowsheet3") :
        calls[i].ok =>
            /\ calls[i].mgr = mgr_auto.id /\ calls[i].fs = fs_auto.id
            /\ SaveRoutineFollows(i, "auto")
            /\ (i < Len(calls) => calls[i + 1].mgr = calls[i].mgr)

\* The calculation returned two exceptions and the auto pass is complete.
C3_Witness ==
    /\ pc = "init" /\ mode = "ordenado"
    /\ Len(excecoes.items) = 2
    /\ WrittenThisRun(OutPath("auto"))
    /\ WrittenThisRun(LogPath("auto"))

\* C4: an exception raised by RequestCalculation3 is caught in
\* executar_ordenado and becomes a one-element exception list; it never
\* reaches the top-level handler, it is reported, and the driver goes on to
\* save the flowsheet and write the log.  When the call does not raise the
\* exception list is absent and the report says so.
ReportAfter(tag) ==
    LET i == CHOOSE k \in DOMAIN stdout : stdout[k].tag = tag
    IN  IF i < Len(stdout) THEN stdout[i + 1] ELSE Line("nothing", <<>>)

C4_OrdenadoCatches ==
    \A i \in CallIdx("RequestCalculation3") :
        /\ excecao # "RequestCalculation3"
        /\ IF calls[i].ok
           THEN /\ excecoes = NoExcecoes
                /\ ReportAfter("inicio_ordenado") = Line("sem_excecoes", <<>>)
           ELSE /\ ~excecoes.isNone
                /\ Len(excecoes.items) = 1
                /\ excecoes.items[1].id = "RequestCalculation3"
                /\ ReportAfter("inicio_ordenado") =
                      Line("excecao", Mensagem(excecoes.items[1]))
        /\ SaveRoutineFollows(i, "ordenado")
        /\ (i < Len(calls) => calls[i + 1].mgr = mgr_ord.id)

\* RequestCalculation3 raised and the run still ended with status 0.
C4_Witness ==
    /\ Exited /\ exitStatus = 0
    /\ \E i \in CallIdx("RequestCalculation3") : ~calls[i].ok
    /\ WrittenThisRun(LogPath("ordenado"))

\* C5: the loader never aborts on a module failure: for every module, in
\* list order, the primary load is attempted exactly once, the fallback load
\* if and only if the primary load failed, exactly one of the three outcomes
\* is logged, and the loader goes on to the next module; after the last
\* module the run goes on towards flowsheet loading.
PrimaryAttempts == SelectSeq(attempts, LAMBDA a : a.how = "primary")

\* The lines the loader printed, and the line each attempt must have printed.
LoaderLines ==
    SelectSeq(stdout,
              LAMBDA l : l.tag \in {"dll_ok", "dll_warn", "dll_alt", "dll_crit"})

LineOfAttempt(a) ==
    Line(IF a.how = "primary"
         THEN (IF a.ok THEN "dll_ok" ELSE "dll_warn")
         ELSE (IF a.ok THEN "dll_alt" ELSE "dll_crit"),
         a.dll)

C5_LoaderNeverAborts ==
    \* the loader is left only after the last module
    /\ pc # "dlls" => dllIdx = Len(dlls) + 1
    \* one primary load, by full path, for each module taken so far, in list order
    /\ LET prims == PrimaryAttempts IN
          /\ Len(prims) = dllIdx - 1
          /\ \A k \in DOMAIN prims :
                /\ prims[k].dll = dlls[k]
                /\ prims[k].ref = dwsim_path \o <<"\\", dlls[k]>>
    \* a fallback load, by bare name, right after each failed primary load and
    \* nowhere else
    /\ \A i \in DOMAIN attempts :
          IF attempts[i].how = "primary"
          THEN attempts[i].ok <=>
                  (i = Len(attempts) \/ attempts[i + 1].how = "primary")
          ELSE /\ attempts[i].how = "fallback"
               /\ attempts[i].ref = <<attempts[i].dll>>
               /\ i > 1
               /\ attempts[i - 1].how = "primary"
               /\ attempts[i - 1].dll = attempts[i].dll
               /\ ~attempts[i - 1].ok
    /\ loaded = {attempts[i].dll : i \in {j \in DOMAIN attempts : attempts[j].ok}}
    \* one line per attempt: "dll_ok" alone for a primary success, "dll_warn"
    \* then exactly one of "dll_alt" and "dll_crit" otherwise
    /\ LET ll == LoaderLines IN
          /\ Len(ll) = Len(attempts)
          /\ \A i \in DOMAIN ll : ll[i] = LineOfAttempt(attempts[i])
    \* the run goes on to the imports and, when they succeed, to LoadFlowsheet
    /\ (Exited /\ ImportOK(loaded)) => CallIdx("LoadFlowsheet") # {}

\* The last module failed on both loads and the flowsheet load was attempted.
C5_Witness ==
    /\ "System.Buffers.dll" \notin loaded
    /\ \E i \in DOMAIN attempts :
          attempts[i].dll = "DWSIM.Automation.dll" /\ ~attempts[i].ok
    /\ CallIdx("LoadFlowsheet") # {}

\* C6: a run executes, for each mode and in this order: initialize a fresh
\* manager and flowsheet, force one full recalculation with both flags true,
\* invoke the driver of the mode, save.  The auto pass comes first and its
\* save and log are complete before the ordered pass loads its flowsheet; no
\* manager or flowsheet of the auto pass is used by the ordered pass, and each
\* save is done by the manager that loaded the flowsheet being saved.
PassOps(m) ==
    << "Automation3", "LoadFlowsheet", "RequestCalculation2",
       IF m = "auto" THEN "CalculateFlowsheet3" ELSE "RequestCalculation3",
       "SaveFlowsheet", "open_w" >>

RunOps == PassOps("auto") \o PassOps("ordenado")

PassInOrder(mc, b, sufixo) ==
    /\ Len(mc) >= b + 2 =>
          /\ mc[b + 2].mgr = mc[b + 1].mgr
          /\ mc[b + 2].arg[1] = flowsheet_path
    /\ Len(mc) >= b + 3 =>
          /\ mc[b + 2].ok
          /\ mc[b + 3].fs = mc[b + 2].fs
          /\ mc[b + 3].arg = <<TRUE, TRUE>>
    /\ Len(mc) >= b + 4 =>
          /\ mc[b + 3].ok
          /\ mc[b + 4].fs = mc[b + 2].fs
          /\ mc[b + 4].mgr \in {0, mc[b + 2].mgr}
    /\ Len(mc) >= b + 5 =>
          /\ mc[b + 5].fs = mc[b + 2].fs
          /\ mc[b + 5].mgr = mc[b + 2].mgr
          /\ mc[b + 5].arg[1] = OutPath(sufixo)
    /\ Len(mc) >= b + 6 =>
          /\ mc[b + 5].ok
          /\ mc[b + 6].arg = <<LogPath(sufixo)>>

C6_TwoIndependentPasses ==
    LET mc == MainCalls IN
    /\ Len(mc) <= Len(RunOps)
    /\ \A i \in DOMAIN mc : mc[i].op = RunOps[i]
    /\ PassInOrder(mc, 0, "auto")
    /\ PassInOrder(mc, 6, "ordenado")
    /\ \A i \in DOMAIN mc :
          i > 6 =>
             /\ mc[i].mgr \notin {mc[1].mgr, mc[2].fs}
             /\ mc[i].fs \notin {mc[1].mgr, mc[2].fs}
    /\ Len(mc) > 6 =>
          /\ WrittenThisRun(OutPath("auto"))
          /\ WrittenThisRun(LogPath("auto"))
          /\ ~WrittenThisRun(OutPath("ordenado"))
             \/ (Len(mc) >= 11 /\ mc[11].ok)

\* Both passes ran to their end.
C6_Witness ==
    /\ Exited /\ exitStatus = 0
    /\ Len(MainCalls) = 12
    /\ mgr_ord.id # mgr_auto.id /\ fs_ord.id # fs_auto.id

\* C7: when the flowsheet initializer returns, every object of the loaded
\* flowsheet whose type is python script block is enabled, has automation
\* mode on and has an empty scripting instance, whatever the file held;
\* objects of any other type have these fields unchanged.  The manager's
\* script environment toggle is set and its script-path list is emptied
\* before the load is attempted.
C7_InitializerForcesScriptBlocks ==
    /\ \A i \in CallIdx("LoadFlowsheet") :
          /\ calls[i].arg[2].InitializeScriptEnvironment = TRUE
          /\ calls[i].arg[2].ScriptPaths = <<>>
          /\ calls[i].arg[2].id = calls[i].mgr
    /\ pc = "stab" =>
          LET a == DriverArgs(mode)
              objs == a.flowsheet.objs
          IN  /\ a.flowsheet.id # 0
              /\ a.flowsheet.loadedBy = a.gerenciador.id
              /\ a.gerenciador.InitializeScriptEnvironment = TRUE
              /\ a.gerenciador.ScriptPaths = <<>>
              /\ DOMAIN objs = DOMAIN fileObjs
              /\ \A k \in DOMAIN objs :
                    /\ objs[k].Name = fileObjs[k].Name
                    /\ objs[k].ObjectType = fileObjs[k].ObjectType
                    /\ IF objs[k].ObjectType = "PythonScript"
                       THEN /\ objs[k].Enabled = TRUE
                            /\ objs[k].AutomationMode = TRUE
                            /\ objs[k].ScriptingInstance = "None"
                       ELSE /\ objs[k].Enabled = fileObjs[k].Enabled
                            /\ objs[k].AutomationMode = fileObjs[k].AutomationMode
                            /\ objs[k].ScriptingInstance =
                                  fileObjs[k].ScriptingInstance

\* The initializer returned for a file that held a disabled script block with
\* a scripting instance and a valve with a scripting instance.
C7_Witness ==
    /\ pc = "stab"
    /\ \E k \in DOMAIN fileObjs :
          /\ fileObjs[k].ObjectType = "PythonScript"
          /\ ~fileObjs[k].Enabled /\ ~fileObjs[k].AutomationMode
          /\ fileObjs[k].ScriptingInstance = "ctx"
    /\ \E k \in DOMAIN fileObjs :
          /\ fileObjs[k].ObjectType = "Valve"
          /\ fileObjs[k].ScriptingInstance = "ctx"
          /\ DriverArgs(mode).flowsheet.objs[k].ScriptingInstance = "ctx"

\* C8: a run in which no call raises performs both passes, writes exactly
\* the four files <base>_auto<ext>, <base>_auto_log.txt, <base>_ordenado<ext>
\* and <base>_ordenado_log.txt, does not write error_dump.txt and exits with
\* status 0; a run in which an exception escapes main exits with status 1.
\* The exit status is 0 exactly when both passes completed their save.
FourFiles ==
    { OutPath("auto"), LogPath("auto"), OutPath("ordenado"), LogPath("ordenado") }

EscapedMain == excecao \notin {"none", "import", "AddReference"}

C8_ExitStatus ==
    Exited =>
        /\ exitStatus \in {0, 1}
        /\ EscapedMain => exitStatus = 1
        /\ exitStatus = 0 <=> (SaveReturned("auto") /\ SaveReturned("ordenado"))
        /\ exitStatus = 0 =>
              /\ {p \in DOMAIN files : files[p].run = run} = FourFiles
              /\ Cardinality(FourFiles) = 4
              /\ ErrorDump \notin FourFiles
              /\ CallIdx("CalculateFlowsheet3") # {}
              /\ CallIdx("RequestCalculation3") # {}
              /\ files[OutPath("auto")].kind = "flowsheet"
              /\ files[OutPath("ordenado")].kind = "flowsheet"
              /\ files[LogPath("auto")].kind = "log"
              /\ files[LogPath("ordenado")].kind = "log"
        /\ (ImportOK(loaded) /\ \A i \in DOMAIN calls : calls[i].ok) =>
              exitStatus = 0

\* A run without any raise ended with status 0 while error_dump.txt of an
\* earlier run is still on disk.
C8_Witness ==
    /\ Exited /\ exitStatus = 0 /\ run = 2
    /\ \A i \in DOMAIN calls : calls[i].ok
    /\ \A i \in DOMAIN attempts : attempts[i].ok
    /\ ErrorDump \in DOMAIN files

\* C9: running the program twice with the same flowsheet path overwrites and
\* does not duplicate: the output and log paths present after the second
\* successful run are those present after the first, each derived from the
\* flowsheet path and the mode suffix (suffix before the extension, suffix
\* plus _log.txt for the log), and each file holds the content of the latest
\* run.
ExpectedPaths(p) ==
    IF p = RealPath
    THEN LET b == << "C:", "\\", "Users\\Usuario\\Documents\\DWSIM-Paiva\\psScripter",
                     "\\", "psScripterv01" >>
         IN { b \o <<"_", "auto", ".", "dwxmz">>,
              b \o <<"_", "auto", "_log", ".", "txt">>,
              b \o <<"_", "ordenado", ".", "dwxmz">>,
              b \o <<"_", "ordenado", "_log", ".", "txt">> }
    ELSE LET b == << "C:", "\\", "runs", ".", "v1", "\\", "sheet" >>
         IN { b \o <<"_", "auto">>,
              b \o <<"_", "auto", "_log", ".", "txt">>,
              b \o <<"_", "ordenado">>,
              b \o <<"_", "ordenado", "_log", ".", "txt">> }

C9_RerunOverwrites ==
    /\ \A k \in DOMAIN okPaths : okPaths[k] = ExpectedPaths(flowsheet_path)
    /\ (Exited /\ exitStatus = 0) =>
          /\ DOMAIN files \ {ErrorDump} = ExpectedPaths(flowsheet_path)
          /\ \A q \in ExpectedPaths(flowsheet_path) : files[q].run = run
          /\ files[LogPath("auto")].saida = OutPath("auto")
          /\ files[LogPath("ordenado")].saida = OutPath("ordenado")
          /\ files[LogPath("auto")].entrada = flowsheet_path

\* The second of two successful runs has ended.
C9_Witness ==
    /\ Exited /\ exitStatus = 0 /\ run = 2
    /\ Len(okPaths) = 2

\* C10: in every run and for each mode the log is written only after the
\* save of that mode's flowsheet has returned in the same run, and the files
\* of the ordenado mode only after both files of the auto mode; a failure in
\* the ordered pass before its save leaves the auto output and log of this
\* run on disk, with error_dump.txt and exit status 1.
LogAfterSave(sufixo) ==
    WrittenThisRun(LogPath(sufixo)) =>
        /\ WrittenThisRun(OutPath(sufixo))
        /\ \E j \in CallIdx("open_w") :
              /\ calls[j].arg = <<LogPath(sufixo)>>
              /\ j > 1
              /\ calls[j - 1].op = "SaveFlowsheet" /\ calls[j - 1].ok
              /\ calls[j - 1].arg[1] = OutPath(sufixo)
        /\ \A j \in CallIdx("open_w") :
              calls[j].arg = <<LogPath(sufixo)>> =>
                 \E i \in 1 .. j - 1 :
                    /\ calls[i].op = "SaveFlowsheet" /\ calls[i].ok
                    /\ calls[i].arg[1] = OutPath(sufixo)

C10_WriteOrder ==
    /\ LogAfterSave("auto")
    /\ LogAfterSave("ordenado")
    /\ (WrittenThisRun(OutPath("ordenado")) \/ WrittenThisRun(LogPath("ordenado"))) =>
          WrittenThisRun(OutPath("auto")) /\ WrittenThisRun(LogPath("auto"))
    /\ (Exited /\ mode = "ordenado" /\ excecao # "none"
           /\ ~SaveReturned("ordenado")) =>
          /\ WrittenThisRun(OutPath("auto"))
          /\ WrittenThisRun(LogPath("auto"))
          /\ ~WrittenThisRun(OutPath("ordenado"))
          /\ ~WrittenThisRun(LogPath("ordenado"))
          /\ WrittenThisRun(ErrorDump)
          /\ exitStatus = 1

\* The ordered pass failed at its stabilising recalculation.
C10_Witness ==
    /\ Exited /\ mode = "ordenado"
    /\ excecao = "RequestCalculation2"
    /\ WrittenThisRun(LogPath("auto"))
    /\ WrittenThisRun(ErrorDump)

=============================================================================
